---- MODULE Spec2Model ----
(***************************************************************************)
(* Model of ruuvi-sensor-protocol: the version-3 payload decoder           *)
(* (src/sensordata/v3.rs), its conversion into the version-independent     *)
(* record, the manufacturer/version dispatcher and the Temperature trait   *)
(* (src/lib.rs).                                                           *)
(*                                                                         *)
(* The library is a set of pure functions that keep no state between      *)
(* calls.  A behaviour is one caller: it makes a call from the start state *)
(* and then the follow-up calls on its outcome; the state holds the        *)
(* arguments and outcomes.  Rust slices are 0-indexed, TLA+ sequences are  *)
(* 1-indexed: At(value, i) is Rust's value[i].                             *)
(***************************************************************************)
EXTENDS Integers, Sequences, FiniteSets

VARIABLES op, id, value, parsed, value2, parsed2, record, generic, result,
          kelvin, celsius

vars == <<op, id, value, parsed, value2, parsed2, record, generic, result,
          kelvin, celsius>>

(***************************************************************************)
(* Bounds of the model and the inputs the caller draws from.               *)
(***************************************************************************)
MaxLen == 16

ByteVals == {0, 1, 3, 7, 127, 128, 255}

ExamplePayload == <<3, 23, 1, 69, 53, 88, 3, 232, 4, 231, 5, 230, 8, 134>>

Bases == { ExamplePayload,
           [j \in 1..14 |-> 0],
           [j \in 1..14 |-> 255] }

MakePayload(base, len, i, b) ==
    [j \in 1..len |-> IF j = i THEN b ELSE base[((j - 1) % 14) + 1]]

Ids == {0, 1176, 1177, 1178, 39172, 65535}

(***************************************************************************)
(* Machine integers.                                                       *)
(***************************************************************************)
RECURSIVE BitOr(_, _)
BitOr(a, b) ==
    IF a = 0 THEN b
    ELSE IF b = 0 THEN a
    ELSE (IF a % 2 = 1 \/ b % 2 = 1 THEN 1 ELSE 0) + 2 * BitOr(a \div 2, b \div 2)

Shl16(x, n) == (x * (2 ^ n)) % 65536

AsI16(v) == IF v >= 32768 THEN v - 65536 ELSE v

At(v, i) == v[i + 1]

(***************************************************************************)
(* src/sensordata/v3.rs                                                    *)
(***************************************************************************)
u16_from_two_bytes_swapped(b1, b2) == BitOr(b1, Shl16(b2, 8))

u16_from_two_bytes(b1, b2) == BitOr(Shl16(b1, 8), b2)

i16_from_two_bytes(b1, b2) == AsI16(u16_from_two_bytes(b1, b2))

ExpectedLen == 14

\* A result of the decoder carries, besides the Result itself, the set of
\* payload indices its evaluation indexed ("reads").
InvalidValueLength(v, l, e) ==
    [kind |-> "Err",
     err |-> [tag |-> "InvalidValueLength", version |-> v, length |-> l, expected |-> e],
     reads |-> {}]

SensorDataV3(v) ==
    [kind |-> "Ok",
     data |-> [humidity |-> At(v, 1),
               temperature |-> u16_from_two_bytes(At(v, 2), At(v, 3)),
               pressure |-> u16_from_two_bytes(At(v, 4), At(v, 5)),
               acceleration |-> <<i16_from_two_bytes(At(v, 6), At(v, 7)),
                                  i16_from_two_bytes(At(v, 8), At(v, 9)),
                                  i16_from_two_bytes(At(v, 10), At(v, 11))>>,
               battery_potential |-> u16_from_two_bytes(At(v, 12), At(v, 13))],
     reads |-> 1..13]

from_manufacturer_specific_data_at_least(v) ==
    IF Len(v) >= ExpectedLen
    THEN SensorDataV3(v)
    ELSE InvalidValueLength(3, Len(v), ExpectedLen)

from_manufacturer_specific_data_reads_tag(v) ==
    IF Len(v) = ExpectedLen
    THEN [SensorDataV3(v) EXCEPT !.data.humidity = At(v, 0), !.reads = @ \cup {0}]
    ELSE InvalidValueLength(3, Len(v), ExpectedLen)

SensorDataV3_from_manufacturer_specific_data(v) ==
    IF Len(v) = ExpectedLen
    THEN SensorDataV3(v)
    ELSE InvalidValueLength(3, Len(v), ExpectedLen)

\* impl Into<SensorData> for SensorDataV3: the body is unimplemented!(),
\* which panics for every record.
Panic == [kind |-> "Panic"]

SensorDataV3_into(self) == Panic

(***************************************************************************)
(* The dispatcher SensorValues::from_manufacturer_specific_data.  Its code *)
(* (mod formats) is not part of the sources at hand; only its documented   *)
(* examples in src/lib.rs are.  It is modelled from the specification:     *)
(* manufacturer id check, then the version tag, then the version decoder   *)
(* and the conversion of its record.  For the empty payload the            *)
(* specification fixes only the kind of the error, so its fields are a     *)
(* choice.                                                                 *)
(***************************************************************************)
RuuviManufacturerId == 1177

UnknownManufacturerId(i) ==
    [kind |-> "Err", err |-> [tag |-> "UnknownManufacturerId", id |-> i]]

UnsupportedFormatVersion(t) ==
    [kind |-> "Err", err |-> [tag |-> "UnsupportedFormatVersion", version |-> t]]

Returned(r) ==
    IF r.kind = "Err" THEN [kind |-> "Err", err |-> r.err]
    ELSE IF r.kind = "Ok" THEN [kind |-> "Ok", data |-> r.data]
    ELSE r

MapInto(r) ==
    IF r.kind = "Ok" THEN SensorDataV3_into(r.data) ELSE Returned(r)

EmptyValueErrors ==
    { Returned(InvalidValueLength(v, 0, e)) : v \in {0, 3}, e \in {1, ExpectedLen} }

from_manufacturer_specific_data_version_first(i, v) ==
    IF Len(v) = 0 THEN EmptyValueErrors
    ELSE IF At(v, 0) # 3 THEN { UnsupportedFormatVersion(At(v, 0)) }
    ELSE IF i # RuuviManufacturerId THEN { UnknownManufacturerId(i) }
    ELSE { MapInto(SensorDataV3_from_manufacturer_specific_data(v)) }

from_manufacturer_specific_data_length_first(i, v) ==
    IF i # RuuviManufacturerId THEN { UnknownManufacturerId(i) }
    ELSE IF Len(v) = 0 THEN EmptyValueErrors
    ELSE IF Len(v) # ExpectedLen THEN { Returned(InvalidValueLength(At(v, 0), Len(v), ExpectedLen)) }
    ELSE IF At(v, 0) # 3 THEN { UnsupportedFormatVersion(At(v, 0)) }
    ELSE { MapInto(SensorDataV3_from_manufacturer_specific_data(v)) }

SensorValues_from_manufacturer_specific_data(i, v) ==
    IF i # RuuviManufacturerId THEN { UnknownManufacturerId(i) }
    ELSE IF Len(v) = 0 THEN EmptyValueErrors
    ELSE IF At(v, 0) # 3 THEN { UnsupportedFormatVersion(At(v, 0)) }
    ELSE { MapInto(SensorDataV3_from_manufacturer_specific_data(v)) }

(***************************************************************************)
(* src/lib.rs: trait Temperature.  A u32 does not fit TLC's integers, so   *)
(* an integer n is held as two limbs, n = hi * 65536 + lo with lo in       *)
(* 0..65535; hi \in 0..65535 for a u32, hi \in -32768..32767 for an i32.   *)
(***************************************************************************)
Wide(n) == [hi |-> n \div 65536, lo |-> n % 65536]

WideSub(a, b) ==
    LET borrow == IF a.lo < b.lo THEN 1 ELSE 0
    IN  [hi |-> a.hi - b.hi - borrow, lo |-> a.lo - b.lo + 65536 * borrow]

InI32(w) == w.hi \in -32768..32767

\* `as i32`: the same 32 bits read as two's complement
AsI32(w) == [hi |-> ((w.hi + 32768) % 65536) - 32768, lo |-> w.lo]

None == [kind |-> "None"]

Some(w) == [kind |-> "Some", v |-> w]

\* a - b on i32: with overflow checks (debug builds) an overflow panics,
\* without them (release builds) the difference wraps
I32Sub(a, b) ==
    LET d == WideSub(a, b)
    IN  IF InI32(d) THEN { Some(d) } ELSE { Panic, Some(AsI32(d)) }

ZERO_CELSIUS_IN_MILLIKELVINS == 2731500

\* impl Temperature for Value
temperature_as_millikelvins(self) == self

temperature_as_millicelsius(self) ==
    LET k == temperature_as_millikelvins(self)
    IN  IF k.kind = "None" THEN { None }
        ELSE I32Sub(AsI32(k.v), AsI32(Wide(ZERO_CELSIUS_IN_MILLIKELVINS)))

(***************************************************************************)
(* Inputs of the remaining calls.                                          *)
(***************************************************************************)
RawRecords ==
    [humidity : {0, 23, 255},
     temperature : {0, 325, 33093, 65535},
     pressure : {0, 13656, 65535},
     acceleration : {<<1000, 1255, 1510>>, <<-32768, -1, 32767>>, <<0, 0, 0>>},
     battery_potential : {0, 2182, 65535}]

KelvinHi == {0, 4, 29, 40, 41, 42, 32767, 32768, 32809, 32810, 65535}

KelvinLo == {0, 1, 9360, 11006, 44523, 44524, 44525, 48696, 65535}

Kelvins == { None } \cup { Some([hi |-> h, lo |-> l]) : h \in KelvinHi, l \in KelvinLo }

NoCall == [kind |-> "NoCall"]

Init ==
    /\ op = "start"
    /\ id = 0
    /\ value = <<>>
    /\ parsed = NoCall
    /\ value2 = <<>>
    /\ parsed2 = NoCall
    /\ record = NoCall
    /\ generic = NoCall
    /\ result = NoCall
    /\ kelvin = NoCall
    /\ celsius = NoCall

\* SensorDataV3::from_manufacturer_specific_data(&value)
ParseV3 ==
    /\ op = "start"
    /\ \E base \in Bases, len \in 0..MaxLen, i \in 1..MaxLen, b \in ByteVals :
            /\ op' = "v3"
            /\ value' = MakePayload(base, len, i, b)
            /\ parsed' = SensorDataV3_from_manufacturer_specific_data(value')
            /\ UNCHANGED <<id, value2, parsed2, record, generic, result, kelvin, celsius>>

\* a second call of the decoder, on the first payload with one byte changed
ParseV3Again ==
    /\ op = "v3"
    /\ \E j \in 0..(MaxLen - 1), b \in ByteVals :
            /\ j < Len(value)
            /\ op' = "v3_again"
            /\ value2' = [value EXCEPT ![j + 1] = b]
            /\ parsed2' = SensorDataV3_from_manufacturer_specific_data(value2')
            /\ UNCHANGED <<id, value, parsed, record, generic, result, kelvin, celsius>>

\* result.map(|data| data.into()) on the decoder's result
MapIntoGeneric ==
    /\ op = "v3"
    /\ op' = "v3_into"
    /\ record' = IF parsed.kind = "Ok" THEN parsed.data ELSE NoCall
    /\ generic' = MapInto(parsed)
    /\ UNCHANGED <<id, value, parsed, value2, parsed2, result, kelvin, celsius>>

\* Into::<SensorData>::into(record) on a record of any raw field values
IntoRecord ==
    /\ op = "start"
    /\ \E r \in RawRecords :
            /\ op' = "into"
            /\ record' = r
            /\ generic' = SensorDataV3_into(r)
            /\ UNCHANGED <<id, value, parsed, value2, parsed2, result, kelvin, celsius>>

\* SensorValues::from_manufacturer_specific_data(id, &value)
Dispatch ==
    /\ op = "start"
    /\ \E m \in Ids, base \in Bases, len \in 0..MaxLen, i \in 1..MaxLen, b \in ByteVals :
            /\ op' = "dispatch"
            /\ id' = m
            /\ value' = MakePayload(base, len, i, b)
            /\ result' \in SensorValues_from_manufacturer_specific_data(id', value')
            /\ UNCHANGED <<parsed, value2, parsed2, record, generic, kelvin, celsius>>

\* Value { temperature: k }.temperature_as_millicelsius()
ConvertTemperature ==
    /\ op = "start"
    /\ \E k \in Kelvins :
            /\ op' = "temp"
            /\ kelvin' = k
            /\ celsius' \in temperature_as_millicelsius(k)
            /\ UNCHANGED <<id, value, parsed, value2, parsed2, record, generic, result>>

Next ==
    \/ ParseV3
    \/ ParseV3Again
    \/ MapIntoGeneric
    \/ IntoRecord
    \/ Dispatch
    \/ ConvertTemperature

Spec == Init /\ [][Next]_vars

(***************************************************************************)
(* Properties.                                                             *)
(***************************************************************************)
\* The repository's own tests of the code under src/ that pass, as a check
\* of the model: v3.rs parse_version_3_data_with_invalid_length and
\* parse_valid_version_3_data, lib.rs zero_kelvins .. no_temperature.
RepositoryTestsPass ==
    /\ SensorDataV3_from_manufacturer_specific_data(<<3, 103, 22, 50, 60, 70>>).err
           = [tag |-> "InvalidValueLength", version |-> 3, length |-> 6, expected |-> 14]
    /\ SensorDataV3_from_manufacturer_specific_data(ExamplePayload).data
           = [humidity |-> 23, temperature |-> 325, pressure |-> 13656,
              acceleration |-> <<1000, 1255, 1510>>, battery_potential |-> 2182]
    /\ temperature_as_millicelsius(Some(Wide(0))) = { Some(Wide(-2731500)) }
    /\ temperature_as_millicelsius(Some(Wide(2731500))) = { Some(Wide(0)) }
    /\ temperature_as_millicelsius(Some(Wide(2630800))) = { Some(Wide(-100700)) }
    /\ temperature_as_millicelsius(Some(Wide(1949240))) = { Some(Wide(-782260)) }
    /\ temperature_as_millicelsius(None) = { None }

DecoderCalled == op \in {"v3", "v3_again", "v3_into"}

LengthError(v) ==
    [kind |-> "Err",
     err |-> [tag |-> "InvalidValueLength", version |-> 3, length |-> Len(v), expected |-> 14],
     reads |-> {}]

\* C1: for every payload whose length is not 14 (empty and longer than 14
\* included) the version-3 decoder returns InvalidValueLength with version 3,
\* the actual length and expected 14, having read no byte of the payload.
C1_InvalidLength ==
    /\ DecoderCalled /\ Len(value) # 14 => parsed = LengthError(value)
    /\ op = "v3_again" /\ Len(value2) # 14 => parsed2 = LengthError(value2)

C1_Witness ==
    /\ op = "v3"
    /\ Len(value) > 14
    /\ parsed.kind = "Err"
    /\ parsed.err.length = Len(value)

Signed16(v) == IF v < 32768 THEN v ELSE v - 65536

\* C2: for every 14-byte payload p the decoder returns humidity = p[1],
\* temperature = 256*p[2] + p[3], pressure = 256*p[4] + p[5],
\* battery_potential = 256*p[12] + p[13], and acceleration = the big-endian
\* pairs p[6..7], p[8..9], p[10..11] read as two's-complement 16-bit integers.
C2_FieldLayout ==
    DecoderCalled /\ Len(value) = 14 =>
        /\ parsed.kind = "Ok"
        /\ parsed.data.humidity = At(value, 1)
        /\ parsed.data.temperature = 256 * At(value, 2) + At(value, 3)
        /\ parsed.data.pressure = 256 * At(value, 4) + At(value, 5)
        /\ parsed.data.battery_potential = 256 * At(value, 12) + At(value, 13)
        /\ parsed.data.acceleration =
               << Signed16(256 * At(value, 6) + At(value, 7)),
                  Signed16(256 * At(value, 8) + At(value, 9)),
                  Signed16(256 * At(value, 10) + At(value, 11)) >>

C2_Witness ==
    /\ op = "v3"
    /\ Len(value) = 14
    /\ parsed.kind = "Ok"
    /\ parsed.data.temperature = 325
    /\ parsed.data.pressure = 13656
    /\ parsed.data.acceleration[1] < 0

\* C3: decoding the documented example payload and converting the record
\* into the version-independent record completes normally with humidity
\* 115000, temperature 1690, pressure 63656, acceleration (1000, 1255, 1510)
\* and battery potential 2182, all present.
C3_WorkedExample ==
    op = "v3_into" /\ value = ExamplePayload =>
        /\ generic.kind = "Ok"
        /\ generic = [kind |-> "Ok",
                      data |-> [humidity |-> Some(115000),
                                temperature |-> Some(1690),
                                pressure |-> Some(63656),
                                acceleration |-> Some(<<1000, 1255, 1510>>),
                                battery_potential |-> Some(2182)]]

\* C4: for every SensorDataV3 record the conversion returns a record with all
\* five quantities present: humidity = raw * 500, temperature =
\* sign * (integer_part * 1000 + fractional_part * 10) with the sign negative
\* iff bit 7 of the raw high byte is set, pressure = raw + 50000, acceleration
\* and battery potential unchanged.
C4_Conversion ==
    op \in {"into", "v3_into"} /\ record # NoCall =>
        LET high == record.temperature \div 256
            low == record.temperature % 256
            sign == IF high >= 128 THEN -1 ELSE 1
        IN  /\ generic.kind = "Ok"
            /\ generic = [kind |-> "Ok",
                          data |-> [humidity |-> Some(record.humidity * 500),
                                    temperature |-> Some(sign * ((high % 128) * 1000 + low * 10)),
                                    pressure |-> Some(record.pressure + 50000),
                                    acceleration |-> Some(record.acceleration),
                                    battery_potential |-> Some(record.battery_potential)]]

\* C5: for a present milli-Kelvin reading k, temperature_as_millicelsius
\* returns k - 273150; 0 yields -273150 and 273150 yields 0.
C5_KelvinToCelsius ==
    op = "temp" /\ kelvin.kind = "Some" =>
        /\ celsius = Some(WideSub(kelvin.v, Wide(273150)))
        /\ kelvin.v = Wide(0) => celsius = Some(Wide(-273150))
        /\ kelvin.v = Wide(273150) => celsius = Some(Wide(0))

\* C6: temperature_as_millicelsius returns None if and only if
\* temperature_as_millikelvins returns None, and returns a present value
\* whenever the milli-Kelvin reading is present.
C6_PresencePreserved ==
    op = "temp" =>
        /\ celsius.kind = "None" <=> kelvin.kind = "None"
        /\ kelvin.kind = "Some" => celsius.kind = "Some"

\* C7: for every manufacturer id other than 0x0499 and every payload (any
\* length, any version byte, the empty payload included) the dispatcher
\* returns UnknownManufacturerId(id); the manufacturer check comes before the
\* version and length errors.
C7_UnknownManufacturer ==
    op = "dispatch" /\ id # 1177 =>
        result = [kind |-> "Err", err |-> [tag |-> "UnknownManufacturerId", id |-> id]]

C7_Witness ==
    /\ op = "dispatch"
    /\ id = 1178
    /\ Len(value) = 6
    /\ At(value, 0) = 7
    /\ result.kind = "Err"
    /\ result.err.tag = "UnknownManufacturerId"

\* C8: for manufacturer id 0x0499 and every non-empty payload whose first byte
\* is not 3 the dispatcher returns UnsupportedFormatVersion(first byte),
\* whatever the length and the other bytes.
C8_UnsupportedVersion ==
    op = "dispatch" /\ id = 1177 /\ Len(value) > 0 /\ At(value, 0) # 3 =>
        result = [kind |-> "Err",
                  err |-> [tag |-> "UnsupportedFormatVersion", version |-> At(value, 0)]]

C8_Witness ==
    /\ op = "dispatch"
    /\ id = 1177
    /\ Len(value) = 6
    /\ At(value, 0) = 7
    /\ result.kind = "Err"
    /\ result.err.tag = "UnsupportedFormatVersion"
    /\ result.err.version = 7

\* C9: the decoder succeeds for every 14-byte payload, fails only on the
\* length, never reads byte 0, and two 14-byte payloads that agree on bytes
\* 1..13 decode to equal records whatever their first bytes are.
C9_VersionByteIgnored ==
    /\ DecoderCalled => (parsed.kind = "Ok" <=> Len(value) = 14) /\ 0 \notin parsed.reads
    /\ op = "v3_again" /\ Len(value) = 14 /\ (\A j \in 1..13 : At(value, j) = At(value2, j)) =>
           /\ parsed.kind = "Ok"
           /\ parsed2.kind = "Ok"
           /\ parsed2.data = parsed.data

C9_Witness ==
    /\ op = "v3_again"
    /\ Len(value) = 14
    /\ At(value, 0) = 3
    /\ At(value2, 0) = 7
    /\ parsed2.kind = "Ok"
    /\ parsed2.data = parsed.data

\* C10: for every present milli-Kelvin reading k in 0..2^32-1 the cast of k to
\* i32 keeps its value and the i32 subtraction does not overflow, so the
\* result is the exact difference k - ZERO_CELSIUS_IN_MILLIKELVINS.
C10_ExactDifference ==
    op = "temp" /\ kelvin.kind = "Some" =>
        /\ AsI32(kelvin.v) = kelvin.v
        /\ celsius = Some(WideSub(kelvin.v, Wide(ZERO_CELSIUS_IN_MILLIKELVINS)))

====
